---------------------------- MODULE Spec2Model ----------------------------
(***************************************************************************)
(* A model of qiankun's lifecycle orchestration (src/src/loader.ts,        *)
(* src/src/apis.ts) and of its global state bus (src/src/globalState.ts).  *)
(*                                                                         *)
(* The specifications share one set of variables:                          *)
(*   SpecBus       the global state bus driven by its actions;             *)
(*   SpecApps      loadMicroApp, loadApp and the mount / unmount hook      *)
(*                 chains, for any configuration, app and container;       *)
(*   SpecRemount   the same steps when every call is for one app and one   *)
(*                 container;                                              *)
(*   SpecSingular  the same steps for more calls, all in singular mode     *)
(*                 into one container that stays in the document;          *)
(*   SpecReg       registerMicroApps, start and the lazy loaders;          *)
(*   SpecSettled, SpecLegacy, SpecExports, SpecSubscribe, SpecFailure,     *)
(*   SpecUnmountFailure and SpecThrow: a host, an entry or a callback of   *)
(*   one kind, described where each is defined.                            *)
(***************************************************************************)
EXTENDS Integers, Sequences, FiniteSets, TLC

(***************************************************************************)
(* Bounds of the model.                                                    *)
(***************************************************************************)
\* consumer (micro-app) ids that use the bus in SpecBus
MaxSubscribers == 1
\* loadMicroApp calls made in SpecApps
MaxCalls == 2
\* loadMicroApp calls made in SpecSingular
MaxSingularCalls == 3
\* descriptors the registry holds in SpecReg
MaxRegistered == 2
\* loadMicroApp calls of a host that lets its parcels settle between calls
MaxSettledCalls == 2

VARIABLES
    \* ---- src/src/globalState.ts
    globalState,    \* the store: an object [ref, val]
    deps,           \* subscriber map, in property insertion order
    masterIds,      \* ids of the master actions handed out by initGlobalState
    lastOp,         \* history: the most recent bus operation and its effects
    rt,             \* history: progress of an init / set / subscribe round trip
    \* ---- src/src/apis.ts
    frameworkConfiguration,     \* [singular, cacheLifecycleByAppName]
    frameworkStarted,           \* frameworkStartedDefer is resolved
    microApps,                  \* the registry: a sequence of descriptors
    registered,                 \* registerApplication calls, one lazy loader each
    appConfigPromiseGetterMap,  \* cache key -> the loadApp call it holds
    parcels,                    \* loadMicroApp calls (single-spa parcels)
    \* ---- src/src/loader.ts
    prevAppUnmountedDeferred,   \* 0 (undefined) or the id of a Deferred
    numDeferreds,               \* Deferred objects created so far
    resolvedDeferreds,          \* ids of the resolved Deferred objects
    insts                       \* loadApp calls: one app instance each

busVars == <<globalState, deps, masterIds, lastOp, rt>>
appVars == <<frameworkConfiguration, appConfigPromiseGetterMap, parcels,
             prevAppUnmountedDeferred, numDeferreds, resolvedDeferreds, insts>>
regVars == <<frameworkStarted, microApps, registered>>

(***************************************************************************)
(* Values.                                                                 *)
(***************************************************************************)
Keys == {"a", "b"}
\* the values a top-level key is given
Vals == {1, 2}
\* contents of a state object: a finite map from some keys to values
StateVals == UNION {[S -> Vals] : S \in SUBSET Keys}
EmptyVal == [k \in {} |-> 0]

\* Object identity.  Every cloneDeep call allocates a new object, named here
\* after the place of the call: the object that becomes the store, the bus's
\* own temporaries (i = 0) and the two copies handed to the i-th callback of
\* a notification pass.  Objects built by callers carry a caller reference.
InternalRef == 0
CallerRefs == {1}
NextRef(i) == 2 * i + 2
PrevRef(i) == 2 * i + 3
Obj(r, v) == [ref |-> r, val |-> v]
CallerObjs == {Obj(r, v) : r \in CallerRefs, v \in StateVals}

\* lodash cloneDeep: same contents, a new object r
cloneDeep_Same(o, r) == o
cloneDeep(o, r) == Obj(r, o.val)

\* state === globalState
SameReference(state, store) == state.ref = store.ref

MasterIds == {"global-1"}
AppIds == {"app" \o ToString(i) : i \in 1..MaxSubscribers}
BusIds == MasterIds \cup AppIds
Callbacks == {"f", "g"}
NotAFunction == "notfn"
NoCb == "none"

(***************************************************************************)
(* deps: Record<string, callback>.  A JS object enumerates its string keys *)
(* in insertion order; assigning to an existing key keeps its position.    *)
(***************************************************************************)
DepIds(d) == {d[i].id : i \in DOMAIN d}
DepCb(d, id) == IF id \in DepIds(d)
                THEN (CHOOSE e \in {d[i] : i \in DOMAIN d} : e.id = id).cb
                ELSE NoCb
\* deps[id] = callback
SetDep_Append(d, id, cb) == Append(d, [id |-> id, cb |-> cb])
SetDep_MoveToEnd(d, id, cb) ==
    Append(SelectSeq(d, LAMBDA e : e.id # id), [id |-> id, cb |-> cb])
SetDep(d, id, cb) ==
    IF id \in DepIds(d)
    THEN [i \in DOMAIN d |-> IF d[i].id = id THEN [id |-> id, cb |-> cb] ELSE d[i]]
    ELSE Append(d, [id |-> id, cb |-> cb])
\* delete deps[id]
DeleteDep_Keep(d, id) == d
DeleteDep(d, id) == SelectSeq(d, LAMBDA e : e.id # id)

\* emitGlobal: every registered callback, in Object.keys order, each with
\* its own deep copies of the two states
emitGlobal_NewOnly(d, state, prevState) ==
    [i \in DOMAIN d |-> [id |-> d[i].id, cb |-> d[i].cb,
                         next |-> cloneDeep(state, NextRef(i)).val,
                         prev |-> cloneDeep(state, PrevRef(i)).val,
                         nextRef |-> cloneDeep(state, NextRef(i)).ref,
                         prevRef |-> cloneDeep(state, PrevRef(i)).ref]]
emitGlobal(d, state, prevState) ==
    [i \in DOMAIN d |-> [id |-> d[i].id, cb |-> d[i].cb,
                         next |-> cloneDeep(state, NextRef(i)).val,
                         prev |-> cloneDeep(prevState, PrevRef(i)).val,
                         nextRef |-> cloneDeep(state, NextRef(i)).ref,
                         prevRef |-> cloneDeep(prevState, PrevRef(i)).ref]]

\* A callback is the caller's code and may throw.  forEach has no handler, so
\* the pass ends with the callback that throws: throwAt is its position in
\* Object.keys(deps), or NoThrow when every callback returns.
NoThrow == 0
emitGlobalUntil_Isolated(d, state, prevState, throwAt) ==
    emitGlobal(d, state, prevState)
emitGlobalUntil(d, state, prevState, throwAt) ==
    IF throwAt = NoThrow
    THEN emitGlobal(d, state, prevState)
    ELSE SubSeq(emitGlobal(d, state, prevState), 1, throwAt)

\* isMaster || _globalState.hasOwnProperty(changeKey)
MayWriteKey_Any(isMaster, store, changeKey) == TRUE
MayWriteKey(isMaster, store, changeKey) ==
    isMaster \/ changeKey \in DOMAIN store

\* changeKeys.length === 0
NothingChanged_Never(changeKeys) == FALSE
NothingChanged(changeKeys) ==
    changeKeys = {}

\* if (fireImmediately) callback(cloneState, cloneState)
FireImmediately_Stale(id, callback, cloneState) ==
    <<[id |-> id, cb |-> callback, next |-> cloneState.val, prev |-> EmptyVal,
       nextRef |-> cloneState.ref, prevRef |-> cloneState.ref]>>
FireImmediately(id, callback, cloneState) ==
    <<[id |-> id, cb |-> callback, next |-> cloneState.val, prev |-> cloneState.val,
       nextRef |-> cloneState.ref, prevRef |-> cloneState.ref]>>

\* The reduce of setGlobalState over Object.keys(state): returns the pair
\* <<contents of the accumulated store, changeKeys>>.
RECURSIVE ReduceKeys(_, _, _, _, _)
ReduceKeys(todo, state, isMaster, acc, changeKeys) ==
    IF todo = {} THEN <<acc, changeKeys>>
    ELSE LET changeKey == CHOOSE k \in todo : TRUE
         IN  IF MayWriteKey(isMaster, acc, changeKey)
             THEN ReduceKeys(todo \ {changeKey}, state, isMaster,
                             [k \in DOMAIN acc \cup {changeKey} |->
                                 IF k = changeKey THEN state[changeKey] ELSE acc[k]],
                             changeKeys \cup {changeKey})
             ELSE ReduceKeys(todo \ {changeKey}, state, isMaster, acc, changeKeys)

NoOp == [op |-> "none", id |-> "none", master |-> FALSE, cb |-> NoCb, fire |-> FALSE,
         arg |-> EmptyVal, ret |-> FALSE, before |-> EmptyVal, depsBefore |-> <<>>,
         invoked |-> <<>>,
         thrown |-> NoThrow,    \* the position of the callback that threw
         obj |-> InternalRef]   \* the object passed to init, or mutated in place
NoRt == [stage |-> 0, s0 |-> EmptyVal, p |-> EmptyVal, master |-> FALSE]

(***************************************************************************)
(* initGlobalState(state)                                                  *)
(***************************************************************************)
initGlobalState(state, newId) ==
    /\ IF SameReference(state, globalState)
       THEN /\ UNCHANGED <<globalState>>
            /\ lastOp' = [NoOp EXCEPT !.op = "init", !.id = newId, !.master = TRUE,
                            !.arg = state.val, !.before = globalState.val,
                            !.depsBefore = deps, !.obj = state.ref]
       ELSE LET prevGlobalState == cloneDeep(globalState, PrevRef(0))
                newState == cloneDeep(state, InternalRef)
            IN  /\ globalState' = newState
                /\ lastOp' = [NoOp EXCEPT !.op = "init", !.id = newId, !.master = TRUE,
                                !.arg = state.val, !.ret = TRUE, !.obj = state.ref,
                                !.before = globalState.val, !.depsBefore = deps,
                                !.invoked = emitGlobal(deps, newState, prevGlobalState)]
    /\ masterIds' = masterIds \cup {newId}
    /\ rt' = [NoRt EXCEPT !.stage = 1, !.s0 = state.val]
    /\ UNCHANGED <<deps, appVars, regVars>>

(***************************************************************************)
(* getMicroAppStateActions(id, isMaster).onGlobalStateChange               *)
(***************************************************************************)
onGlobalStateChange(id, isMaster, callback, fireImmediately) ==
    /\ IF callback = NotAFunction
       THEN /\ UNCHANGED deps
            /\ lastOp' = [NoOp EXCEPT !.op = "on", !.id = id, !.master = isMaster,
                            !.cb = callback, !.fire = fireImmediately,
                            !.before = globalState.val, !.depsBefore = deps]
       ELSE LET cloneState == cloneDeep(globalState, NextRef(0))
            IN  /\ deps' = SetDep(deps, id, callback)
                /\ lastOp' = [NoOp EXCEPT !.op = "on", !.id = id, !.master = isMaster,
                                !.cb = callback, !.fire = fireImmediately, !.ret = TRUE,
                                !.before = globalState.val, !.depsBefore = deps,
                                !.invoked = IF fireImmediately
                                            THEN FireImmediately(id, callback, cloneState)
                                            ELSE <<>>]
    /\ rt' = IF rt.stage = 2 /\ fireImmediately /\ callback # NotAFunction
             THEN [rt EXCEPT !.stage = 3]
             ELSE NoRt
    /\ UNCHANGED <<globalState, masterIds, appVars, regVars>>

(***************************************************************************)
(* getMicroAppStateActions(id, isMaster).setGlobalState                    *)
(***************************************************************************)
setGlobalStateWith(id, isMaster, state, throwAt) ==
    /\ throwAt \in {NoThrow} \cup DOMAIN deps
    /\ IF SameReference(state, globalState)
       THEN /\ UNCHANGED globalState
            /\ lastOp' = [NoOp EXCEPT !.op = "set", !.id = id, !.master = isMaster,
                            !.arg = state.val, !.before = globalState.val,
                            !.depsBefore = deps]
       ELSE LET prevGlobalState == cloneDeep(globalState, PrevRef(0))
                reduced == ReduceKeys(DOMAIN state.val, state.val, isMaster,
                                      globalState.val, {})
                newState == cloneDeep(Obj(globalState.ref, reduced[1]), InternalRef)
                changeKeys == reduced[2]
                threw == IF NothingChanged(changeKeys) THEN NoThrow ELSE throwAt
            IN  /\ globalState' = newState
                /\ lastOp' = [NoOp EXCEPT !.op = "set", !.id = id, !.master = isMaster,
                                !.arg = state.val,
                                !.ret = ~NothingChanged(changeKeys) /\ threw = NoThrow,
                                !.thrown = threw,
                                !.before = globalState.val, !.depsBefore = deps,
                                !.invoked = IF NothingChanged(changeKeys) THEN <<>>
                                            ELSE emitGlobalUntil(deps, newState,
                                                                 prevGlobalState, throwAt)]
    /\ rt' = IF rt.stage = 1 /\ lastOp'.ret
             THEN [rt EXCEPT !.stage = 2, !.p = state.val, !.master = isMaster]
             ELSE NoRt
    /\ UNCHANGED <<deps, masterIds, appVars, regVars>>

\* a call whose callbacks all return
setGlobalState(id, isMaster, state) == setGlobalStateWith(id, isMaster, state, NoThrow)

(***************************************************************************)
(* getMicroAppStateActions(id, isMaster).offGlobalStateChange              *)
(***************************************************************************)
offGlobalStateChange(id, isMaster) ==
    /\ deps' = DeleteDep(deps, id)
    /\ lastOp' = [NoOp EXCEPT !.op = "off", !.id = id, !.master = isMaster, !.ret = TRUE,
                    !.before = globalState.val, !.depsBefore = deps]
    /\ rt' = NoRt
    /\ UNCHANGED <<globalState, masterIds, appVars, regVars>>

(***************************************************************************)
(* A consumer mutates, in place, an object it holds: one it built itself   *)
(* or one a callback of the latest operation was handed.  The store        *)
(* changes with it exactly if the store is that very object.               *)
(***************************************************************************)
HeldRefs ==
    CallerRefs \cup {lastOp.invoked[i].nextRef : i \in DOMAIN lastOp.invoked}
               \cup {lastOp.invoked[i].prevRef : i \in DOMAIN lastOp.invoked}

MutateObject(r, v) ==
    /\ r \in HeldRefs
    /\ globalState' = IF globalState.ref = r THEN Obj(r, v) ELSE globalState
    /\ lastOp' = [NoOp EXCEPT !.op = "mutate", !.obj = r, !.arg = v,
                    !.before = globalState.val, !.depsBefore = deps]
    /\ rt' = NoRt
    /\ UNCHANGED <<deps, masterIds, appVars, regVars>>

\* the actions objects a caller can hold: getMicroAppStateActions(id) for a
\* consumer, and the master actions returned by an earlier initGlobalState
Actions == {<<id, FALSE>> : id \in AppIds} \cup {<<id, TRUE>> : id \in masterIds}

InitBus ==
    /\ globalState = Obj(InternalRef, EmptyVal)
    /\ deps = <<>>
    /\ masterIds = {}
    /\ lastOp = NoOp
    /\ rt = NoRt

BusInit ==
    \E state \in CallerObjs, newId \in MasterIds : initGlobalState(state, newId)
BusOn ==
    \E a \in Actions, cb \in Callbacks \cup {NotAFunction}, fire \in BOOLEAN :
        onGlobalStateChange(a[1], a[2], cb, fire)
BusSet ==
    \E a \in Actions, state \in CallerObjs : setGlobalState(a[1], a[2], state)
BusOff ==
    \E a \in Actions : offGlobalStateChange(a[1], a[2])

\* what a consumer overwrites an object with: two contents, so that one of
\* them differs from whatever the store holds
MutatedVals == {v \in StateVals : DOMAIN v = {"a"}}
BusMutate ==
    \E r \in HeldRefs, v \in MutatedVals : MutateObject(r, v)

NextBus == BusInit \/ BusOn \/ BusSet \/ BusOff \/ BusMutate

(***************************************************************************)
(* The page, the descriptors and the cache keys.                           *)
(***************************************************************************)
Names == {"a", "b"}
Containers == {"c1", "c2"}
Undefined == "undefined"
Descriptors == [name : Names, container : Containers]

\* getXPathForElement(containerElement, document)
getXPathForElement(container) == "/" \o container
\* getContainerXpath: undefined when getContainer(container) finds no element.
\* The host page attaches and removes its containers as it likes, so whether
\* a container is present is an input of every step that looks it up.
getContainerXpath(container, present) ==
    IF present THEN getXPathForElement(container) ELSE Undefined
\* `${name}-${xpath}`
XpathKey(name, xpath) == name \o "-" \o xpath

\* appInstanceId, the instance's subscriber id on the state bus
appInstanceId(i) == "inst" \o ToString(i)

(***************************************************************************)
(* getRender without a legacyRender: the error render(props, phase)        *)
(* throws through assertElementExist, or NoError.  `present` says whether  *)
(* getContainer(container) finds an element.                               *)
(***************************************************************************)
\* an error is the tuple <<text, container, app, phase>> behind its message
NoError == <<>>
\* `[qiankun] Target container with ${container} not existed while|after
\* ${appName} ${phase}!`
errorMsg(appName, container, phase) ==
    <<IF phase = "mounted" THEN "Target container not existed after"
      ELSE "Target container not existed while",
      container, appName, phase>>
render_Strict(legacyRender, appName, container, present, phase) ==
    IF ~legacyRender /\ ~present THEN errorMsg(appName, container, phase) ELSE NoError
render(legacyRender, appName, container, present, phase) ==
    IF legacyRender THEN NoError        \* return legacyRender({loading, appContent})
    ELSE IF phase # "unmounted" /\ ~present
    THEN errorMsg(appName, container, phase)
    ELSE NoError

\* the sandbox option of the configuration, as far as style isolation goes
DefaultSandbox == "default"
Sandboxes == {DefaultSandbox, "strictStyleIsolation", "experimentalStyleIsolation"}
\* the function getAppWrapperGetter returns, called: the error it throws, or
\* NoError when it returns the wrapper (elementPresent: the wrapper it looks
\* up is there)
appWrapperGetter(appName, useLegacyRender, sandbox, elementPresent) ==
    IF useLegacyRender /\ sandbox = "strictStyleIsolation"
    THEN <<"strictStyleIsolation can not be used with legacy render", "", "", "">>
    ELSE IF useLegacyRender /\ sandbox = "experimentalStyleIsolation"
    THEN <<"experimentalStyleIsolation can not be used with legacy render", "", "", "">>
    ELSE IF ~elementPresent
    THEN <<"Wrapper element is not existed", "", appName, "">>
    ELSE NoError
\* history: the phase that was rendered while the container was missing
Absent(present, phase) == IF present THEN "" ELSE phase

(***************************************************************************)
(* getLifecyclesFromExports.  An exports object is the set of lifecycle    *)
(* functions it carries; `global` maps the properties of the execution     *)
(* context to such objects.  The result names the object that is returned  *)
(* (obj) with its functions, or is Thrown.                                 *)
(***************************************************************************)
Null == "null"
Complete == {"bootstrap", "mount", "unmount"}
Malformed == {"bootstrap", "mount"}
ExportValues == {Complete, Malformed}
validateExportLifecycle(exports) == Complete \subseteq exports
Thrown == [obj |-> Undefined, fns |-> {}]
getLifecyclesFromExports_GlobalFirst(scriptExports, appName, global, globalLatestSetProp) ==
    IF validateExportLifecycle(scriptExports)
    THEN [obj |-> "exports", fns |-> scriptExports]
    ELSE IF validateExportLifecycle(global[appName])
    THEN [obj |-> appName, fns |-> global[appName]]
    ELSE IF /\ globalLatestSetProp # Null
            /\ validateExportLifecycle(global[globalLatestSetProp])
    THEN [obj |-> globalLatestSetProp, fns |-> global[globalLatestSetProp]]
    ELSE Thrown
getLifecyclesFromExports(scriptExports, appName, global, globalLatestSetProp) ==
    IF validateExportLifecycle(scriptExports)
    THEN [obj |-> "exports", fns |-> scriptExports]
    ELSE IF /\ globalLatestSetProp # Null
            /\ validateExportLifecycle(global[globalLatestSetProp])
    THEN [obj |-> globalLatestSetProp, fns |-> global[globalLatestSetProp]]
    ELSE IF validateExportLifecycle(global[appName])
    THEN [obj |-> appName, fns |-> global[appName]]
    ELSE Thrown
\* history of an instance whose scripts have not been executed yet
NoResolution == [scriptExports |-> {}, global |-> <<>>, latestSetProp |-> Null]

(***************************************************************************)
(* loadApp: the part that runs synchronously in the caller, up to          *)
(* `await importEntry(entry, importEntryOpts)`.                            *)
(***************************************************************************)
loadAppWith(name, container, configuration, legacyRender, sandbox) ==
    Append(insts, [name |-> name, container |-> container,
                   singular |-> configuration.singular,
                   legacyRender |-> legacyRender,   \* 'render' in app
                   sandbox |-> sandbox,
                   pc |-> "importEntry", waitOn |-> 0,
                   elem |-> FALSE,          \* initialAppWrapperElement is not null
                   err |-> NoError,         \* the error loadApp rejected with
                   lifecycles |-> Thrown,   \* the resolved lifecycle object
                   resolution |-> NoResolution, \* history: what execScripts left
                   absent |-> "",           \* history: Absent at render 'loading'
                   entryCalls |-> 1,        \* history: importEntry calls
                   scriptRuns |-> 0,        \* history: execScripts calls
                   bootstraps |-> 0])       \* history: module bootstrap calls

\* a descriptor with a container and no render function, default sandbox
loadApp(name, container, configuration) ==
    loadAppWith(name, container, configuration, FALSE, DefaultSandbox)

\* validateSingularMode(singular, app) && prevAppUnmountedDeferred, with the
\* Deferred still pending: the caller has to wait for its promise
MustWait_Never(singular) == FALSE
MustWait(singular) ==
    /\ singular
    /\ prevAppUnmountedDeferred # 0
    /\ prevAppUnmountedDeferred \notin resolvedDeferreds

\* createElement, getRender and render(..., 'loading'), createSandboxContainer
\* and the merge of the hooks, which run without a suspension point; then
\* execHooksChain(beforeLoad) is awaited
LoadRender(i, present) ==
    LET thrown == render(insts[i].legacyRender, insts[i].name, insts[i].container,
                         present, "loading")
    IN  [insts EXCEPT ![i] = [@ EXCEPT !.elem = TRUE, !.waitOn = 0, !.err = thrown,
                                !.absent = Absent(present, "loading"),
                                !.pc = IF thrown = NoError THEN "beforeLoad"
                                       ELSE "failed"]]

\* importEntry has resolved; the singular check of loadApp
ImportEntryResolved(i, present) ==
    /\ i \in DOMAIN insts
    /\ insts[i].pc = "importEntry"
    /\ IF MustWait(insts[i].singular)
       THEN insts' = [insts EXCEPT ![i] = [@ EXCEPT !.pc = "singularWait",
                                             !.waitOn = prevAppUnmountedDeferred]]
       ELSE insts' = LoadRender(i, present)
    /\ UNCHANGED <<frameworkConfiguration, appConfigPromiseGetterMap, parcels,
                   prevAppUnmountedDeferred, numDeferreds, resolvedDeferreds>>
    /\ UNCHANGED <<busVars, regVars>>

\* the Deferred awaited at loader.ts:297 has been resolved
LoadBarrierPassed(i, present) ==
    /\ i \in DOMAIN insts
    /\ insts[i].pc = "singularWait"
    /\ insts[i].waitOn \in resolvedDeferreds
    /\ insts' = LoadRender(i, present)
    /\ UNCHANGED <<frameworkConfiguration, appConfigPromiseGetterMap, parcels,
                   prevAppUnmountedDeferred, numDeferreds, resolvedDeferreds>>
    /\ UNCHANGED <<busVars, regVars>>

\* the beforeLoad chain has completed: execScripts(global, ...) is called
BeforeLoadDone(i) ==
    /\ i \in DOMAIN insts
    /\ insts[i].pc = "beforeLoad"
    /\ insts' = [insts EXCEPT ![i] = [@ EXCEPT !.pc = "execScripts",
                                        !.scriptRuns = @ + 1]]
    /\ UNCHANGED <<frameworkConfiguration, appConfigPromiseGetterMap, parcels,
                   prevAppUnmountedDeferred, numDeferreds, resolvedDeferreds>>
    /\ UNCHANGED <<busVars, regVars>>

\* execScripts has resolved: the lifecycles are read from the exports, the
\* bus actions are created and parcelConfigGetter is returned
ExecScriptsDoneWith(i, scriptExports, global, latestSetProp) ==
    /\ i \in DOMAIN insts
    /\ insts[i].pc = "execScripts"
    /\ LET found == getLifecyclesFromExports(scriptExports, insts[i].name, global,
                                             latestSetProp)
       IN  insts' = [insts EXCEPT ![i] =
              [@ EXCEPT !.pc = IF found = Thrown THEN "failed" ELSE "loaded",
                        !.err = IF found = Thrown
                                THEN <<"You need to export lifecycle functions", "",
                                       insts[i].name, "">>
                                ELSE NoError,
                        !.lifecycles = found,
                        !.resolution = [scriptExports |-> scriptExports,
                                        global |-> global,
                                        latestSetProp |-> latestSetProp]]]
    /\ UNCHANGED <<frameworkConfiguration, appConfigPromiseGetterMap, parcels,
                   prevAppUnmountedDeferred, numDeferreds, resolvedDeferreds>>
    /\ UNCHANGED <<busVars, regVars>>

\* The other ways in which loadApp rejects: importEntry rejects
\* (loader.ts:288-292), a beforeLoad hook throws or rejects (loader.ts:381),
\* or the entry leaves no valid lifecycles anywhere (loader.ts:386-396).
EntryError(appName) == <<"importEntry rejected", "", appName, "">>
HookError(appName) == <<"beforeLoad hook rejected", "", appName, "">>
Reject(i, from, thrown) ==
    /\ i \in DOMAIN insts
    /\ insts[i].pc = from
    /\ insts' = [insts EXCEPT ![i] = [@ EXCEPT !.pc = "failed", !.err = thrown]]
    /\ UNCHANGED <<frameworkConfiguration, appConfigPromiseGetterMap, parcels,
                   prevAppUnmountedDeferred, numDeferreds, resolvedDeferreds>>
    /\ UNCHANGED <<busVars, regVars>>
ImportEntryRejected(i) ==
    /\ i \in DOMAIN insts
    /\ Reject(i, "importEntry", EntryError(insts[i].name))
BeforeLoadRejected(i) ==
    /\ i \in DOMAIN insts
    /\ Reject(i, "beforeLoad", HookError(insts[i].name))
ExecScriptsMissing(i) ==
    /\ i \in DOMAIN insts
    /\ ExecScriptsDoneWith(i, Malformed, [prop \in {insts[i].name} |-> Malformed], Null)

\* a module that exports its lifecycles and sets no global property
ExecScriptsDone(i) ==
    /\ i \in DOMAIN insts
    /\ ExecScriptsDoneWith(i, Complete, [prop \in {insts[i].name} |-> Malformed], Null)

(***************************************************************************)
(* loadMicroApp: memorizedLoadingFn, run by mountRootParcel.               *)
(***************************************************************************)
\* the cached loadApp call memorizedLoadingFn finds, or 0
CachedInst_Miss(name, container, present) == 0
CachedInst_Retry(name, container, present) ==
    LET xpath == getContainerXpath(container, present)
        key == IF frameworkConfiguration.cacheLifecycleByAppName THEN name
               ELSE IF xpath # Undefined THEN XpathKey(name, xpath)
               ELSE Undefined
    IN  IF /\ container # Undefined
           /\ key \in DOMAIN appConfigPromiseGetterMap
           /\ insts[appConfigPromiseGetterMap[key]].pc # "failed"
        THEN appConfigPromiseGetterMap[key]
        ELSE 0
CachedInst(name, container, present) ==
    LET xpath == getContainerXpath(container, present)
    IN  IF container = Undefined THEN 0     \* no 'container' in app
        ELSE IF /\ frameworkConfiguration.cacheLifecycleByAppName
                /\ name \in DOMAIN appConfigPromiseGetterMap
        THEN appConfigPromiseGetterMap[name]
        ELSE IF /\ xpath # Undefined
                /\ XpathKey(name, xpath) \in DOMAIN appConfigPromiseGetterMap
             THEN appConfigPromiseGetterMap[XpathKey(name, xpath)]
             ELSE 0

\* the key under which a new loadApp call is stored, or Undefined
StoreKey_None(name, container, present) == Undefined
StoreKey(name, container, present) ==
    LET xpath == getContainerXpath(container, present)
    IN  IF container = Undefined THEN Undefined
        ELSE IF frameworkConfiguration.cacheLifecycleByAppName THEN name
        ELSE IF xpath # Undefined THEN XpathKey(name, xpath)
        ELSE Undefined

\* the config parcelConfigGetter returns, as far as the parcel's bootstrap goes
parcelConfig == [bootstrap |-> "module"]
\* wrapParcelConfigForRemount
wrapParcelConfigForRemount_Keep(config) == config
wrapParcelConfigForRemount(config) ==
    [config EXCEPT !.bootstrap = "noop"]

IdleParcel == [pc |-> "idle", name |-> "", container |-> "", inst |-> 0,
               config |-> parcelConfig, remount |-> FALSE, step |-> 0, waitOn |-> 0,
               elem |-> FALSE,      \* appWrapperElement is not null
               err |-> NoError,     \* the error the mount or unmount chain rejected with
               absent |-> "",       \* history: Absent at the mount chain's render
               ran |-> "",          \* history: the hook of the chains that completed last
               xpath |-> Undefined, \* history: getContainerXpath at the call
               joined |-> {},       \* history: same-key calls still loading at the call
               waitFor |-> {}]      \* history: singular parcels mounted at the call
                                    \* whose module unmount has not resolved

Singular(p) == parcels[p].inst # 0 /\ insts[parcels[p].inst].singular

loadMicroAppWith(p, name, container, present, legacyRender, sandbox) ==
    /\ parcels[p].pc = "idle"
    /\ \A q \in 1..(p - 1) : parcels[q].pc # "idle"
    /\ LET hit == CachedInst(name, container, present)
           key == StoreKey(name, container, present)
           new == Len(insts) + 1
           called == [IdleParcel EXCEPT
                        !.pc = "loading", !.name = name, !.container = container,
                        !.xpath = getContainerXpath(container, present),
                        !.joined = {q \in 1..(p - 1) :
                                        /\ parcels[q].pc = "loading"
                                        /\ parcels[q].name = name
                                        /\ parcels[q].container = container},
                        !.waitFor = {q \in 1..(p - 1) :
                                        parcels[q].pc = "mounted" /\ Singular(q)}]
       IN  IF hit # 0
           THEN /\ parcels' = [parcels EXCEPT ![p] =
                                  [called EXCEPT !.inst = hit, !.remount = TRUE]]
                /\ UNCHANGED <<insts, appConfigPromiseGetterMap>>
           ELSE /\ insts' = loadAppWith(name, container, frameworkConfiguration,
                                        legacyRender, sandbox)
                /\ appConfigPromiseGetterMap' =
                      IF key # Undefined
                      THEN (key :> new) @@ appConfigPromiseGetterMap
                      ELSE appConfigPromiseGetterMap
                /\ parcels' = [parcels EXCEPT ![p] = [called EXCEPT !.inst = new]]
    /\ UNCHANGED <<frameworkConfiguration, prevAppUnmountedDeferred,
                   numDeferreds, resolvedDeferreds>>
    /\ UNCHANGED <<busVars, regVars>>

\* a descriptor with a container and no render function, default sandbox
loadMicroApp(p, name, container, present) ==
    loadMicroAppWith(p, name, container, present, FALSE, DefaultSandbox)
\* a descriptor with a render function and no container
loadMicroAppLegacy(p, name, sandbox) ==
    loadMicroAppWith(p, name, Undefined, FALSE, TRUE, sandbox)

\* (await parcelConfigGetterPromise)(container): the load has settled
ParcelLoaded(p) ==
    /\ parcels[p].pc = "loading"
    /\ LET i == parcels[p].inst
       IN  /\ insts[i].pc \in {"loaded", "failed"}
           /\ IF insts[i].pc = "loaded"
              THEN parcels' = [parcels EXCEPT ![p] =
                      [@ EXCEPT !.pc = "bootstrap",
                                !.elem = insts[i].elem,
                                !.config = IF parcels[p].remount
                                           THEN wrapParcelConfigForRemount(parcelConfig)
                                           ELSE parcelConfig]]
              ELSE parcels' = [parcels EXCEPT ![p] = [@ EXCEPT !.pc = "loadError"]]
    /\ UNCHANGED <<frameworkConfiguration, appConfigPromiseGetterMap,
                   prevAppUnmountedDeferred, numDeferreds, resolvedDeferreds, insts>>
    /\ UNCHANGED <<busVars, regVars>>

(***************************************************************************)
(* The parcel's bootstrap, as the scheduler runs it once per parcel.       *)
(***************************************************************************)
BootstrapInvoke(p) ==
    /\ parcels[p].pc = "bootstrap"
    /\ parcels' = [parcels EXCEPT ![p] = [@ EXCEPT !.pc = "bootstrapping"]]
    /\ insts' = IF parcels[p].config.bootstrap = "module"
                THEN [insts EXCEPT ![parcels[p].inst] =
                         [@ EXCEPT !.bootstraps = @ + 1]]
                ELSE insts
    /\ UNCHANGED <<frameworkConfiguration, appConfigPromiseGetterMap,
                   prevAppUnmountedDeferred, numDeferreds, resolvedDeferreds>>
    /\ UNCHANGED <<busVars, regVars>>

BootstrapResolve(p) ==
    /\ parcels[p].pc = "bootstrapping"
    /\ parcels' = [parcels EXCEPT ![p] = [@ EXCEPT !.pc = "mount", !.step = 1]]
    /\ UNCHANGED <<frameworkConfiguration, appConfigPromiseGetterMap,
                   prevAppUnmountedDeferred, numDeferreds, resolvedDeferreds, insts>>
    /\ UNCHANGED <<busVars, regVars>>

(***************************************************************************)
(* parcelConfig.mount: the hooks in array order.  The two performance      *)
(* hooks only act in development builds and are left out.                  *)
(***************************************************************************)
MountChain_MountFirst ==
    <<"singularWait", "renderMounting", "moduleMount", "mountSandbox", "beforeMount",
      "renderMounted", "afterMount", "armBarrier">>
MountChain == <<"singularWait", "renderMounting", "mountSandbox", "beforeMount",
                "moduleMount", "renderMounted", "afterMount", "armBarrier">>
UnmountChain_ResolveFirst ==
    <<"beforeUnmount", "resolveBarrier", "moduleUnmount", "unmountSandbox",
      "afterUnmount", "renderUnmounted">>
UnmountChain == <<"beforeUnmount", "moduleUnmount", "unmountSandbox", "afterUnmount",
                  "renderUnmounted", "resolveBarrier">>

AtMount(p, hook) ==
    /\ parcels[p].pc = "mount"
    /\ MountChain[parcels[p].step] = hook
AtUnmount(p, hook) ==
    /\ parcels[p].pc = "unmount"
    /\ UnmountChain[parcels[p].step] = hook

\* the parcel p after its current mount hook resolved
MountNext(r) ==
    IF r.step = Len(MountChain)
    THEN [r EXCEPT !.pc = "mounted", !.step = 0]
    ELSE [r EXCEPT !.pc = "mount", !.step = @ + 1]
UnmountNext(r) ==
    IF r.step = Len(UnmountChain)
    THEN [r EXCEPT !.pc = "unmounted", !.step = 0]
    ELSE [r EXCEPT !.pc = "unmount", !.step = @ + 1]

\* a hook that touches nothing the model tracks
MountHook(p, hook) ==
    /\ AtMount(p, hook)
    /\ parcels' = [parcels EXCEPT ![p] = MountNext([@ EXCEPT !.ran = hook])]
    /\ UNCHANGED <<frameworkConfiguration, appConfigPromiseGetterMap,
                   prevAppUnmountedDeferred, numDeferreds, resolvedDeferreds, insts>>
    /\ UNCHANGED <<busVars, regVars>>
UnmountHook(p, hook) ==
    /\ AtUnmount(p, hook)
    /\ parcels' = [parcels EXCEPT ![p] = UnmountNext([@ EXCEPT !.ran = hook])]
    /\ UNCHANGED <<frameworkConfiguration, appConfigPromiseGetterMap,
                   prevAppUnmountedDeferred, numDeferreds, resolvedDeferreds, insts>>
    /\ UNCHANGED <<busVars, regVars>>

\* loader.ts:435-441
MountSingularWait(p) ==
    /\ AtMount(p, "singularWait")
    /\ IF MustWait(Singular(p))
       THEN parcels' = [parcels EXCEPT ![p] =
                           [@ EXCEPT !.pc = "mountWait",
                                     !.waitOn = prevAppUnmountedDeferred]]
       ELSE parcels' = [parcels EXCEPT ![p] =
                           MountNext([@ EXCEPT !.ran = "singularWait"])]
    /\ UNCHANGED <<frameworkConfiguration, appConfigPromiseGetterMap,
                   prevAppUnmountedDeferred, numDeferreds, resolvedDeferreds, insts>>
    /\ UNCHANGED <<busVars, regVars>>

MountSingularResume(p) ==
    /\ parcels[p].pc = "mountWait"
    /\ parcels[p].waitOn \in resolvedDeferreds
    /\ parcels' = [parcels EXCEPT ![p] =
                       MountNext([@ EXCEPT !.waitOn = 0, !.ran = "singularWait"])]
    /\ UNCHANGED <<frameworkConfiguration, appConfigPromiseGetterMap,
                   prevAppUnmountedDeferred, numDeferreds, resolvedDeferreds, insts>>
    /\ UNCHANGED <<busVars, regVars>>

\* loader.ts:443-456: re-create the wrapper if needed, render 'mounting'
MountRender(p, present) ==
    /\ AtMount(p, "renderMounting")
    /\ LET i == parcels[p].inst
           useNewContainer == parcels[p].container # insts[i].container
           create == useNewContainer \/ ~parcels[p].elem
           thrown == render(insts[i].legacyRender, insts[i].name,
                            parcels[p].container, present, "mounting")
       IN  /\ parcels' = [parcels EXCEPT ![p] =
                  IF thrown = NoError
                  THEN MountNext([@ EXCEPT !.elem = TRUE, !.ran = "renderMounting",
                                            !.absent = Absent(present, "mounting")])
                  ELSE [@ EXCEPT !.elem = TRUE, !.pc = "mountError", !.err = thrown,
                                 !.absent = Absent(present, "mounting")]]
           /\ insts' = IF create THEN [insts EXCEPT ![i] = [@ EXCEPT !.elem = TRUE]]
                       ELSE insts
    /\ UNCHANGED <<frameworkConfiguration, appConfigPromiseGetterMap,
                   prevAppUnmountedDeferred, numDeferreds, resolvedDeferreds>>
    /\ UNCHANGED <<busVars, regVars>>

MountSandbox(p) == MountHook(p, "mountSandbox")
BeforeMount(p) == MountHook(p, "beforeMount")

\* loader.ts:461-465: the module's mount is called ...
ModuleMountInvoke(p) ==
    /\ AtMount(p, "moduleMount")
    /\ LET i == parcels[p].inst
           thrown == appWrapperGetter(insts[i].name, insts[i].legacyRender,
                                      insts[i].sandbox, parcels[p].elem)
       IN  parcels' = [parcels EXCEPT ![p] =
               IF thrown = NoError THEN [@ EXCEPT !.pc = "mounting"]
               ELSE [@ EXCEPT !.pc = "mountError", !.err = thrown]]
    /\ UNCHANGED <<frameworkConfiguration, appConfigPromiseGetterMap,
                   prevAppUnmountedDeferred, numDeferreds, resolvedDeferreds, insts>>
    /\ UNCHANGED <<busVars, regVars>>
\* ... and resolves
ModuleMountResolve(p) ==
    /\ parcels[p].pc = "mounting"
    /\ parcels' = [parcels EXCEPT ![p] = MountNext([@ EXCEPT !.ran = "moduleMount"])]
    /\ UNCHANGED <<frameworkConfiguration, appConfigPromiseGetterMap,
                   prevAppUnmountedDeferred, numDeferreds, resolvedDeferreds, insts>>
    /\ UNCHANGED <<busVars, regVars>>

\* loader.ts:467-471: render 'mounted'
MountRendered(p, present) ==
    /\ AtMount(p, "renderMounted")
    /\ LET i == parcels[p].inst
           thrown == render(insts[i].legacyRender, insts[i].name,
                            parcels[p].container, present, "mounted")
       IN  parcels' = [parcels EXCEPT ![p] =
               IF thrown = NoError
               THEN MountNext([@ EXCEPT !.absent = Absent(present, "mounted"),
                                         !.ran = "renderMounted"])
               ELSE [@ EXCEPT !.pc = "mountError", !.err = thrown,
                              !.absent = Absent(present, "mounted")]]
    /\ UNCHANGED <<frameworkConfiguration, appConfigPromiseGetterMap,
                   prevAppUnmountedDeferred, numDeferreds, resolvedDeferreds, insts>>
    /\ UNCHANGED <<busVars, regVars>>

AfterMount(p) == MountHook(p, "afterMount")

\* loader.ts:474-478: prevAppUnmountedDeferred = new Deferred()
ArmBarrier(p) ==
    /\ AtMount(p, "armBarrier")
    /\ parcels' = [parcels EXCEPT ![p] = MountNext([@ EXCEPT !.ran = "armBarrier"])]
    /\ IF Singular(p)
       THEN /\ numDeferreds' = numDeferreds + 1
            /\ prevAppUnmountedDeferred' = numDeferreds + 1
       ELSE UNCHANGED <<numDeferreds, prevAppUnmountedDeferred>>
    /\ UNCHANGED <<frameworkConfiguration, appConfigPromiseGetterMap,
                   resolvedDeferreds, insts>>
    /\ UNCHANGED <<busVars, regVars>>

(***************************************************************************)
(* parcelConfig.unmount, started when the host asks the mounted parcel     *)
(* to unmount.                                                             *)
(***************************************************************************)
RequestUnmount(p) ==
    /\ parcels[p].pc = "mounted"
    /\ parcels' = [parcels EXCEPT ![p] = [@ EXCEPT !.pc = "unmount", !.step = 1]]
    /\ UNCHANGED <<frameworkConfiguration, appConfigPromiseGetterMap,
                   prevAppUnmountedDeferred, numDeferreds, resolvedDeferreds, insts>>
    /\ UNCHANGED <<busVars, regVars>>

BeforeUnmount(p) == UnmountHook(p, "beforeUnmount")

\* loader.ts:488: the module's unmount is called ...
ModuleUnmountInvoke(p) ==
    /\ AtUnmount(p, "moduleUnmount")
    /\ LET i == parcels[p].inst
           thrown == appWrapperGetter(insts[i].name, insts[i].legacyRender,
                                      insts[i].sandbox, parcels[p].elem)
       IN  parcels' = [parcels EXCEPT ![p] =
               IF thrown = NoError THEN [@ EXCEPT !.pc = "unmounting"]
               ELSE [@ EXCEPT !.pc = "unmountError", !.err = thrown]]
    /\ UNCHANGED <<frameworkConfiguration, appConfigPromiseGetterMap,
                   prevAppUnmountedDeferred, numDeferreds, resolvedDeferreds, insts>>
    /\ UNCHANGED <<busVars, regVars>>
\* ... and resolves (history: nobody has to wait for p's unmount any more)
ModuleUnmountResolve(p) ==
    /\ parcels[p].pc = "unmounting"
    /\ parcels' = [q \in DOMAIN parcels |->
                      IF q = p THEN UnmountNext([parcels[p] EXCEPT !.ran = "moduleUnmount"])
                      ELSE [parcels[q] EXCEPT !.waitFor = @ \ {p}]]
    /\ UNCHANGED <<frameworkConfiguration, appConfigPromiseGetterMap,
                   prevAppUnmountedDeferred, numDeferreds, resolvedDeferreds, insts>>
    /\ UNCHANGED <<busVars, regVars>>

UnmountSandbox(p) == UnmountHook(p, "unmountSandbox")

\* A function of the unmount array rejects: a beforeUnmount or afterUnmount
\* hook (execHooksChain, loader.ts:36-46), the module's unmount or
\* unmountSandbox.  The array is run as one chain, so the functions after it
\* are not called.
RejectingSteps == {"beforeUnmount", "moduleUnmount", "unmountSandbox", "afterUnmount"}
UnmountRejection(appName, hook) == <<"rejected", "", appName, hook>>
Rejected_Continue(r, thrown) == UnmountNext([r EXCEPT !.err = thrown])
Rejected(r, thrown) == [r EXCEPT !.pc = "unmountError", !.err = thrown]
UnmountRejected(p, hook) ==
    /\ p \in DOMAIN parcels
    /\ hook \in RejectingSteps
    /\ IF hook = "moduleUnmount"
       THEN parcels[p].pc = "unmounting"
       ELSE AtUnmount(p, hook)
    /\ parcels' = [parcels EXCEPT ![p] =
                       Rejected([@ EXCEPT !.pc = "unmount"],
                                UnmountRejection(parcels[p].name, hook))]
    /\ UNCHANGED <<frameworkConfiguration, appConfigPromiseGetterMap,
                   prevAppUnmountedDeferred, numDeferreds, resolvedDeferreds, insts>>
    /\ UNCHANGED <<busVars, regVars>>
AfterUnmount(p) == UnmountHook(p, "afterUnmount")

\* loader.ts:491-497: render 'unmounted', offGlobalStateChange, release the wrapper
UnmountRender(p, present) ==
    /\ AtUnmount(p, "renderUnmounted")
    /\ LET i == parcels[p].inst
           thrown == render(insts[i].legacyRender, insts[i].name,
                            parcels[p].container, present, "unmounted")
       IN  IF thrown = NoError
           THEN /\ deps' = DeleteDep(deps, appInstanceId(i))
                /\ parcels' = [parcels EXCEPT ![p] =
                       UnmountNext([@ EXCEPT !.elem = FALSE, !.ran = "renderUnmounted"])]
                /\ insts' = [insts EXCEPT ![i] = [@ EXCEPT !.elem = FALSE]]
           ELSE /\ parcels' = [parcels EXCEPT ![p] =
                       [@ EXCEPT !.pc = "unmountError", !.err = thrown]]
                /\ UNCHANGED <<deps, insts>>
    /\ UNCHANGED <<frameworkConfiguration, appConfigPromiseGetterMap,
                   prevAppUnmountedDeferred, numDeferreds, resolvedDeferreds>>
    /\ UNCHANGED <<globalState, masterIds, lastOp, rt, regVars>>

\* loader.ts:498-502: prevAppUnmountedDeferred.resolve()
ResolveBarrier(p) ==
    /\ AtUnmount(p, "resolveBarrier")
    /\ parcels' = [parcels EXCEPT ![p] = UnmountNext([@ EXCEPT !.ran = "resolveBarrier"])]
    /\ resolvedDeferreds' =
            IF Singular(p) /\ prevAppUnmountedDeferred # 0
            THEN resolvedDeferreds \cup {prevAppUnmountedDeferred}
            ELSE resolvedDeferreds
    /\ UNCHANGED <<frameworkConfiguration, appConfigPromiseGetterMap,
                   prevAppUnmountedDeferred, numDeferreds, insts>>
    /\ UNCHANGED <<busVars, regVars>>

(***************************************************************************)
(* registerMicroApps, start and the lazy loaders given to the scheduler.   *)
(***************************************************************************)
IsRegistered(app) == \E i \in DOMAIN microApps : microApps[i].name = app.name

registerMicroApps(apps) ==
    /\ LET unregisteredApps == SelectSeq(apps, LAMBDA app : ~IsRegistered(app))
       IN  /\ Len(microApps) + Len(unregisteredApps) <= MaxRegistered
           /\ microApps' = microApps \o unregisteredApps
           \* unregisteredApps.forEach(app => registerApplication({name, app, ...}))
           /\ registered' = registered \o
                 [k \in DOMAIN unregisteredApps |->
                     [name |-> unregisteredApps[k].name,
                      container |-> unregisteredApps[k].container,
                      pc |-> "NOT_LOADED", inst |-> 0,
                      early |-> FALSE]]    \* history: called before start()
    /\ UNCHANGED <<frameworkStarted, busVars, appVars>>

\* start(opts): frameworkConfiguration = {prefetch, singular: true, sandbox, ...opts},
\* then frameworkStartedDefer.resolve()
start(opts) ==
    /\ frameworkConfiguration' = opts
    /\ frameworkStarted' = TRUE
    /\ UNCHANGED <<microApps, registered, busVars>>
    /\ UNCHANGED <<appConfigPromiseGetterMap, parcels,
                   prevAppUnmountedDeferred, numDeferreds, resolvedDeferreds, insts>>

\* the scheduler calls the `app` function of a registered application:
\* loader(true), then `await frameworkStartedDefer.promise`
LazyLoaderCalled(r) ==
    /\ r \in DOMAIN registered
    /\ registered[r].pc = "NOT_LOADED"
    /\ registered' = [registered EXCEPT ![r] = [@ EXCEPT !.pc = "awaitStarted",
                                                          !.early = ~frameworkStarted]]
    /\ UNCHANGED <<frameworkStarted, microApps, busVars, appVars>>

\* frameworkStartedDefer.promise is resolved
Started_Always == TRUE
Started ==
    frameworkStarted

\* the await has resumed: loadApp({name, props, ...appConfig}, frameworkConfiguration)
LazyLoaderLoads(r) ==
    /\ r \in DOMAIN registered
    /\ registered[r].pc = "awaitStarted"
    /\ Started
    /\ insts' = loadApp(registered[r].name, registered[r].container,
                        frameworkConfiguration)
    /\ registered' = [registered EXCEPT ![r] =
                         [@ EXCEPT !.pc = "loading", !.inst = Len(insts) + 1]]
    /\ UNCHANGED <<frameworkStarted, microApps, busVars>>
    /\ UNCHANGED <<frameworkConfiguration, appConfigPromiseGetterMap, parcels,
                   prevAppUnmountedDeferred, numDeferreds, resolvedDeferreds>>

\* loadApp has settled: the lazy loader returns the lifecycles
LazyLoaderReturns(r) ==
    /\ r \in DOMAIN registered
    /\ registered[r].pc = "loading"
    /\ insts[registered[r].inst].pc \in {"loaded", "failed"}
    /\ registered' = [registered EXCEPT ![r] =
            [@ EXCEPT !.pc = IF insts[registered[r].inst].pc = "loaded"
                             THEN "LOADED" ELSE "LOAD_ERROR"]]
    /\ UNCHANGED <<frameworkStarted, microApps, busVars, appVars>>

(***************************************************************************)
(* Specifications.                                                         *)
(***************************************************************************)
vars == <<globalState, deps, masterIds, lastOp, rt,
          frameworkConfiguration, frameworkStarted, microApps, registered,
          appConfigPromiseGetterMap, parcels,
          prevAppUnmountedDeferred, numDeferreds, resolvedDeferreds, insts>>

Configurations == [singular : BOOLEAN, cacheLifecycleByAppName : BOOLEAN]
\* frameworkConfiguration = {}: loadApp defaults singular to false
NoConfiguration == [singular |-> FALSE, cacheLifecycleByAppName |-> FALSE]
NoMap == [k \in {} |-> 0]

Parcels == 1..MaxCalls
SingularParcels == 1..MaxSingularCalls
SettledParcels == 1..MaxSettledCalls
AllParcels == Parcels \cup SingularParcels \cup SettledParcels

\* the modules as loaded, before any call
Init ==
    /\ InitBus
    /\ frameworkConfiguration = NoConfiguration
    /\ frameworkStarted = FALSE
    /\ microApps = <<>>
    /\ registered = <<>>
    /\ appConfigPromiseGetterMap = NoMap
    /\ parcels = [p \in AllParcels |-> IdleParcel]
    /\ prevAppUnmountedDeferred = 0
    /\ numDeferreds = 0
    /\ resolvedDeferreds = {}
    /\ insts = <<>>

\* the page after start(opts)
InitApps ==
    /\ InitBus
    /\ frameworkConfiguration \in Configurations
    /\ frameworkStarted = TRUE
    /\ microApps = <<>>
    /\ registered = <<>>
    /\ appConfigPromiseGetterMap = NoMap
    /\ parcels = [p \in AllParcels |-> IdleParcel]
    /\ prevAppUnmountedDeferred = 0
    /\ numDeferreds = 0
    /\ resolvedDeferreds = {}
    /\ insts = <<>>

SpecBus == Init /\ [][NextBus]_vars

\* the bus when a callback of a notification pass of setGlobalState may throw
BusSetThrow ==
    \E a \in Actions, state \in CallerObjs, throwAt \in {NoThrow} \cup DOMAIN deps :
        setGlobalStateWith(a[1], a[2], state, throwAt)
\* subscriptions of one callback without an immediate call (which is no
\* notification pass); whether the callback throws is decided call by call
BusOnQuiet ==
    \E a \in Actions : onGlobalStateChange(a[1], a[2], "f", FALSE)
NextThrow == BusInit \/ BusOnQuiet \/ BusSetThrow \/ BusOff
SpecThrow == Init /\ [][NextThrow]_vars

\* one step of loadMicroApp, of a load or of a parcel, for the parcels P, the
\* app names N, the containers C and the container lookups B
\* the steps of the loads and of the chains already under way, but for the
\* resumption of those that wait for prevAppUnmountedDeferred
ChainSteps(P, B) ==
    \/ \E i \in P, present \in B : ImportEntryResolved(i, present)
    \/ \E i \in P : BeforeLoadDone(i)
    \/ \E i \in P : ExecScriptsDone(i)
    \/ \E p \in P : ParcelLoaded(p)
    \/ \E p \in P : BootstrapInvoke(p)
    \/ \E p \in P : BootstrapResolve(p)
    \/ \E p \in P : MountSingularWait(p)
    \/ \E p \in P, present \in B : MountRender(p, present)
    \/ \E p \in P : MountSandbox(p)
    \/ \E p \in P : BeforeMount(p)
    \/ \E p \in P : ModuleMountInvoke(p)
    \/ \E p \in P : ModuleMountResolve(p)
    \/ \E p \in P, present \in B : MountRendered(p, present)
    \/ \E p \in P : AfterMount(p)
    \/ \E p \in P : ArmBarrier(p)
    \/ \E p \in P : RequestUnmount(p)
    \/ \E p \in P : BeforeUnmount(p)
    \/ \E p \in P : ModuleUnmountInvoke(p)
    \/ \E p \in P : ModuleUnmountResolve(p)
    \/ \E p \in P : UnmountSandbox(p)
    \/ \E p \in P : AfterUnmount(p)
    \/ \E p \in P, present \in B : UnmountRender(p, present)
    \/ \E p \in P : ResolveBarrier(p)

BarrierSteps(P, B) ==
    \/ \E i \in P, present \in B : LoadBarrierPassed(i, present)
    \/ \E p \in P : MountSingularResume(p)

LifecycleSteps(P, B) == ChainSteps(P, B) \/ BarrierSteps(P, B)

LifecycleNext(P, N, C, B) ==
    \/ \E p \in P, name \in N, container \in C, present \in B :
            loadMicroApp(p, name, container, present)
    \/ LifecycleSteps(P, B)

NextApps == LifecycleNext(Parcels, Names, Containers, BOOLEAN)
SpecApps == InitApps /\ [][NextApps]_vars

\* start({singular: true}) has been called and the page keeps its container
SingularContainer == "c1"
InitSingular ==
    /\ InitApps
    /\ frameworkConfiguration = [singular |-> TRUE, cacheLifecycleByAppName |-> FALSE]

NextSingular == LifecycleNext(SingularParcels, Names, {SingularContainer}, {TRUE})
SpecSingular == InitSingular /\ [][NextSingular]_vars

\* every call is for the same app and the same container
RemountName == "a"
NextRemount == LifecycleNext(Parcels, {RemountName}, {SingularContainer}, BOOLEAN)
SpecRemount == InitApps /\ [][NextRemount]_vars

\* the arrays passed to registerMicroApps; every descriptor names the same
\* container
\* A host that mounts one app into its containers and calls loadMicroApp only
\* once its earlier parcels have settled: each is mounted, unmounted or has
\* failed.
Settled(p) ==
    \A q \in 1..(p - 1) :
        parcels[q].pc \in {"mounted", "unmounted", "loadError", "mountError",
                           "unmountError"}
NextSettled ==
    \/ \E p \in SettledParcels, container \in Containers, present \in BOOLEAN :
            Settled(p) /\ loadMicroApp(p, RemountName, container, present)
    \/ LifecycleSteps(SettledParcels, BOOLEAN)
SpecSettled == InitApps /\ [][NextSettled]_vars

\* The same host with the bus in use.  The module of an instance is handed
\* onGlobalStateChange of getMicroAppStateActions(appInstanceId) with the
\* props of mount (loader.ts:399-403, 461-465) and subscribes while its mount
\* runs or while it is mounted; the host initialises the store, subscribes
\* and sets it through the master actions.
SubscriberCallback == "f"
HostCallback == "g"
HostObjs == {o \in CallerObjs : DOMAIN o.val = {"a"}}
ModuleSubscribe(p) ==
    /\ p \in DOMAIN parcels
    /\ parcels[p].pc \in {"mounting", "mounted"}
    /\ onGlobalStateChange(appInstanceId(parcels[p].inst), FALSE,
                           SubscriberCallback, FALSE)
HostInit == \E state \in HostObjs, newId \in MasterIds : initGlobalState(state, newId)
HostSubscribe == \E id \in masterIds : onGlobalStateChange(id, TRUE, HostCallback, FALSE)
HostSet == \E id \in masterIds, state \in HostObjs : setGlobalState(id, TRUE, state)
\* every call is for the same app and container, so a later call remounts
\* the instance of the first; the cache is keyed by name and container
InitSubscribe ==
    /\ InitApps
    /\ ~frameworkConfiguration.cacheLifecycleByAppName
NextSubscribe ==
    \/ \E p \in SettledParcels :
            Settled(p) /\ loadMicroApp(p, RemountName, SingularContainer, TRUE)
    \/ ChainSteps(SettledParcels, {TRUE})
    \/ \E p \in SettledParcels : MountSingularResume(p)
    \/ \E p \in SettledParcels : ModuleSubscribe(p)
    \/ HostInit
    \/ HostSubscribe
    \/ HostSet
SpecSubscribe == InitSubscribe /\ [][NextSubscribe]_vars

\* The host of SpecSettled when loads can fail in every way.
NextFailure ==
    \/ \E p \in SettledParcels, container \in Containers, present \in BOOLEAN :
            Settled(p) /\ loadMicroApp(p, RemountName, container, present)
    \/ LifecycleSteps(SettledParcels, BOOLEAN)
    \/ \E i \in SettledParcels : ImportEntryRejected(i)
    \/ \E i \in SettledParcels : BeforeLoadRejected(i)
    \/ \E i \in SettledParcels : ExecScriptsMissing(i)
SpecFailure == InitApps /\ [][NextFailure]_vars

\* The host of SpecSettled in singular mode, when the container stays in the
\* document, modules subscribe to the bus and a step of an unmount can reject.
InitUnmountFailure ==
    /\ InitApps
    /\ frameworkConfiguration.singular
NextUnmountFailure ==
    \/ \E p \in SettledParcels, container \in Containers :
            Settled(p) /\ loadMicroApp(p, RemountName, container, TRUE)
    \/ LifecycleSteps(SettledParcels, {TRUE})
    \/ \E p \in SettledParcels : ModuleSubscribe(p)
    \/ \E p \in SettledParcels, hook \in RejectingSteps : UnmountRejected(p, hook)
SpecUnmountFailure == InitUnmountFailure /\ [][NextUnmountFailure]_vars

\* A host whose descriptors carry a render function instead of a container,
\* under any sandbox option.
NextLegacy ==
    \/ \E p \in Parcels, sandbox \in Sandboxes :
            loadMicroAppLegacy(p, RemountName, sandbox)
    \/ LifecycleSteps(Parcels, {TRUE})
SpecLegacy == InitApps /\ [][NextLegacy]_vars

\* A host that mounts one app whose entry may export its lifecycles, leave
\* them on the execution context, or neither.
LibProp == "lib"
GlobalProps == {LibProp, RemountName}
FirstParcel == {1}
NextExports ==
    \/ \E present \in BOOLEAN :
            loadMicroApp(1, RemountName, SingularContainer, present)
    \/ \E scriptExports \in ExportValues, global \in [GlobalProps -> ExportValues],
          latestSetProp \in GlobalProps \cup {Null} :
            ExecScriptsDoneWith(1, scriptExports, global, latestSetProp)
    \/ ChainSteps(FirstParcel, BOOLEAN)
SpecExports == InitApps /\ [][NextExports]_vars

RegDescriptors == {d \in Descriptors : d.container = SingularContainer}
Batches == UNION {[1..n -> RegDescriptors] : n \in 0..MaxRegistered}
\* start() with its defaults: {prefetch: true, singular: true, sandbox: true}
StartOpts == {c \in Configurations : c.singular /\ ~c.cacheLifecycleByAppName}
Registered == 1..MaxRegistered

NextReg ==
    \/ \E apps \in Batches : registerMicroApps(apps)
    \/ \E opts \in StartOpts : start(opts)
    \/ \E r \in Registered : LazyLoaderCalled(r)
    \/ \E r \in Registered : LazyLoaderLoads(r)
    \/ \E r \in Registered : LazyLoaderReturns(r)
    \/ \E i \in Registered, present \in BOOLEAN : ImportEntryResolved(i, present)
    \/ \E i \in Registered : BeforeLoadDone(i)
    \/ \E i \in Registered : ExecScriptsDone(i)

SpecReg == Init /\ [][NextReg]_vars

\* the event loop runs every continuation whose promise has settled
FairReg ==
    /\ \A r \in Registered : WF_vars(LazyLoaderLoads(r))
    /\ \A r \in Registered : WF_vars(LazyLoaderReturns(r))
FairSpecReg == SpecReg /\ FairReg

(***************************************************************************)
(* Claims about singular mode and the remount cache.                       *)
(***************************************************************************)
\* the module's mount function of parcel p has been invoked
MountInvoked(p) ==
    \/ parcels[p].pc \in {"mounting", "mounted", "unmount", "unmounting", "unmounted"}
    \/ parcels[p].pc = "mount" /\ parcels[p].step > 5

\* C1: in singular mode, when B is requested while A is mounted, B's module
\* mount is not invoked before A's module unmount has resolved.  waitFor of B
\* holds the singular parcels that were mounted when B was requested and whose
\* module unmount has not resolved yet.
C1_MountWaitsForUnmount ==
    \A B \in AllParcels : \A A \in parcels[B].waitFor :
        (Singular(B) /\ parcels[A].inst # parcels[B].inst) => ~MountInvoked(B)

\* the singular instances between the start of their module mount and the
\* completion of their module unmount and sandbox unmount
ActiveInsts ==
    {parcels[p].inst : p \in {q \in AllParcels :
        /\ Singular(q)
        /\ \/ parcels[q].pc \in {"mounting", "mounted", "unmounting"}
           \/ parcels[q].pc = "mount" /\ parcels[q].step > 5
           \/ parcels[q].pc = "unmount" /\ parcels[q].step <= 3}}

\* C2: in singular mode no two instances are active at the same time.
C2_AtMostOneActive == Cardinality(ActiveInsts) <= 1

\* what the loadApp calls behind two parcels did, taken together
EntryCalls(p, q) ==
    IF parcels[p].inst = parcels[q].inst
    THEN insts[parcels[p].inst].entryCalls
    ELSE insts[parcels[p].inst].entryCalls + insts[parcels[q].inst].entryCalls
ScriptRuns(p, q) ==
    IF parcels[p].inst = parcels[q].inst
    THEN insts[parcels[p].inst].scriptRuns
    ELSE insts[parcels[p].inst].scriptRuns + insts[parcels[q].inst].scriptRuns
Converged(p, q) ==
    /\ EntryCalls(p, q) = 1
    /\ ScriptRuns(p, q) <= 1

C4_BootstrapOncePerInstance ==
    \A i \in DOMAIN insts : insts[i].bootstraps <= 1

\* a second parcel has been mounted on an instance after the first parcel of
\* that instance was bootstrapped, mounted and unmounted
C4_Witness ==
    \E p, q \in AllParcels :
        /\ parcels[q].inst = parcels[p].inst
        /\ parcels[q].pc = "unmounted"
        /\ parcels[p].remount
        /\ parcels[p].pc = "mounted"
        /\ insts[parcels[p].inst].bootstraps = 1

(***************************************************************************)
(* Claims about registration and start.                                    *)
(***************************************************************************)
\* C5: the registry holds at most one entry per app name, and at most one
\* application per name is registered with the scheduler.
C5_OneEntryPerName ==
    /\ \A i, j \in DOMAIN microApps :
            microApps[i].name = microApps[j].name => i = j
    /\ \A i, j \in DOMAIN registered :
            registered[i].name = registered[j].name => i = j

\* no lazy loader has called loadApp while start() has not been called
C6_NoLoadBeforeStart ==
    /\ insts # <<>> => frameworkStarted
    /\ \A r \in DOMAIN registered :
            registered[r].pc \in {"loading", "LOADED", "LOAD_ERROR"}
                => frameworkStarted
\* a lazy loader that waits while start() has been called goes on to loadApp
C6_WaitersProceed ==
    \A r \in Registered :
        (/\ r \in DOMAIN registered
         /\ registered[r].pc = "awaitStarted"
         /\ frameworkStarted)
        ~> (r \in DOMAIN registered /\ registered[r].pc # "awaitStarted")
\* C6: no registered app's load begins before start() has completed, and
\* once start() has been called every waiting lazy loader goes on to the load.
C6_LoadDeferredUntilStart == []C6_NoLoadBeforeStart /\ C6_WaitersProceed

\* a lazy loader called before start() has loaded its app after it
C6_Witness ==
    \E r \in DOMAIN registered :
        /\ registered[r].early
        /\ registered[r].pc = "LOADED"
        /\ insts[registered[r].inst].scriptRuns = 1

(***************************************************************************)
(* Claims about the global state bus (checked under SpecBus).              *)
(***************************************************************************)
\* the keys of lastOp.arg the claim says a setGlobalState applies
AppliedKeys(o) == {k \in DOMAIN o.arg : o.master \/ k \in DOMAIN o.before}
\* s overridden by the keys K of p
Override(s, p, K) == [k \in DOMAIN s \cup K |-> IF k \in K THEN p[k] ELSE s[k]]

\* C7: only master actions introduce top-level keys.  A master setGlobalState
\* that names a key absent from the store adds it (with the given value) and
\* returns true; a non-master setGlobalState never changes the key set; and
\* any operation that changed the store's key set (lastOp.before is the store
\* as the operation found it) is an initGlobalState or a master setGlobalState.
C7_SetKeys ==
    lastOp.op = "set" =>
        IF lastOp.master
        THEN /\ DOMAIN globalState.val = DOMAIN lastOp.before \cup DOMAIN lastOp.arg
             /\ \A k \in DOMAIN lastOp.arg : globalState.val[k] = lastOp.arg[k]
             /\ (DOMAIN lastOp.arg \ DOMAIN lastOp.before # {} => lastOp.ret)
        ELSE DOMAIN globalState.val = DOMAIN lastOp.before
C7_KeyIntroduction ==
    DOMAIN globalState.val # DOMAIN lastOp.before =>
        \/ lastOp.op = "init"
        \/ lastOp.op = "set" /\ lastOp.master
C8_ZeroKeysIsNoOp ==
    (lastOp.op = "set" /\ AppliedKeys(lastOp) = {}) =>
        /\ lastOp.ret = FALSE
        /\ globalState.val = lastOp.before
        /\ lastOp.invoked = <<>>
        /\ deps = lastOp.depsBefore
\* a non-master call naming only absent keys, while a subscriber is registered
C8_Witness ==
    /\ lastOp.op = "set" /\ ~lastOp.master
    /\ DOMAIN lastOp.arg # {} /\ AppliedKeys(lastOp) = {}
    /\ lastOp.before # EmptyVal
    /\ deps # <<>>

\* C9: at most one subscription is live per subscriber id.  deps never holds
\* two entries for one id; an onGlobalStateChange(callback) makes callback the
\* id's only subscription and leaves every other id's subscription as it was;
\* and a notification pass invokes exactly the callbacks subscribed when it
\* started, once each (so a replaced callback is not invoked through that id).
C9_OneSubscriptionPerId ==
    /\ Cardinality(DepIds(deps)) = Len(deps)
    /\ (lastOp.op = "on" /\ lastOp.cb # NotAFunction) =>
            /\ DepCb(deps, lastOp.id) = lastOp.cb
            /\ \A id \in BusIds \ {lastOp.id} :
                    DepCb(deps, id) = DepCb(lastOp.depsBefore, id)
    /\ (lastOp.op \in {"set", "init"} /\ lastOp.ret) =>
            /\ Len(lastOp.invoked) = Cardinality(DepIds(deps))
            /\ \A i \in DOMAIN lastOp.invoked :
                    lastOp.invoked[i].cb = DepCb(deps, lastOp.invoked[i].id)
\* an id that already had a subscription registers another callback while
\* another id is subscribed too
C9_Witness ==
    /\ lastOp.op = "on" /\ lastOp.cb \in Callbacks
    /\ lastOp.id \in DepIds(lastOp.depsBefore)
    /\ DepCb(lastOp.depsBefore, lastOp.id) # lastOp.cb
    /\ DepIds(deps) # {lastOp.id}

\* C10: round trip.  After initGlobalState(s0), a successful setGlobalState(p)
\* and then onGlobalStateChange(cb, true), cb has been invoked exactly once,
\* with both arguments equal to the store's contents, which are s0 overridden
\* by the applied keys of p; for s0 = {a: 1} and p = {a: 2} both are {a: 2}.
C10_Expected ==
    Override(rt.s0, rt.p, {k \in DOMAIN rt.p : rt.master \/ k \in DOMAIN rt.s0})
C10_RoundTrip ==
    rt.stage = 3 =>
        /\ Len(lastOp.invoked) = 1
        /\ lastOp.invoked[1].cb = lastOp.cb
        /\ lastOp.invoked[1].next = globalState.val
        /\ lastOp.invoked[1].prev = globalState.val
        /\ globalState.val = C10_Expected
        /\ (rt.s0 = [k \in {"a"} |-> 1] /\ rt.p = [k \in {"a"} |-> 2]) =>
                lastOp.invoked[1].next = [k \in {"a"} |-> 2]
                /\ lastOp.invoked[1].prev = [k \in {"a"} |-> 2]
\* the round trip of the spec: {a: 1}, then {a: 2}, read by a fresh subscriber
C10_Witness ==
    /\ rt.stage = 3
    /\ rt.s0 = [k \in {"a"} |-> 1] /\ rt.p = [k \in {"a"} |-> 2]
    /\ lastOp.id \notin DepIds(lastOp.depsBefore)
    /\ lastOp.invoked[1].next = [k \in {"a"} |-> 2]

\* the objects a notification handed to the callback of entry e
Snapshots(e) == {e.nextRef, e.prevRef}

\* C11: consumers cannot change the store by reference.  An in-place
\* mutation of an object a consumer holds (the object it passed to
\* initGlobalState / setGlobalState, or a snapshot a callback received)
\* leaves the store's contents as they were; and no object handed to a
\* callback is the store, the caller's object or an object handed to the
\* callback of another id, so the snapshots of the others are not affected.
C11_NoChangeByReference ==
    /\ lastOp.op = "mutate" => globalState.val = lastOp.before
    /\ globalState.ref \notin CallerRefs
    /\ \A i \in DOMAIN lastOp.invoked :
          /\ globalState.ref \notin Snapshots(lastOp.invoked[i])
          /\ Snapshots(lastOp.invoked[i]) \cap CallerRefs = {}
          /\ \A j \in DOMAIN lastOp.invoked :
                i # j => Snapshots(lastOp.invoked[i]) \cap Snapshots(lastOp.invoked[j]) = {}
\* a consumer has overwritten a snapshot it received, with contents other
\* than the store's, while a subscription is registered
C11_Witness ==
    /\ lastOp.op = "mutate"
    /\ lastOp.obj \notin CallerRefs
    /\ lastOp.arg # lastOp.before
    /\ lastOp.before # EmptyVal
    /\ deps # <<>>

(***************************************************************************)
(* Claims: errors of the load and of the chains.                           *)
(***************************************************************************)
\* the error e names the app and the phase
NamesAppAndPhase(e, appName, phase) ==
    e # NoError /\ e[3] = appName /\ e[4] = phase

\* C12: without a custom render function, rendering 'loading', 'mounting' or
\* 'mounted' while the container is missing throws an error that names the
\* app and the phase, so loadApp (loading) or the mount chain (mounting,
\* mounted) rejects; rendering 'unmounted' while the container is missing
\* throws nothing: whether or not the container is there when it renders
\* 'unmounted', the unmount chain goes on and never rejects.
C12_MissingContainer ==
    /\ \A i \in DOMAIN insts :
          insts[i].absent = "loading" =>
             /\ insts[i].pc = "failed"
             /\ NamesAppAndPhase(insts[i].err, insts[i].name, "loading")
    /\ \A p \in DOMAIN parcels :
          /\ parcels[p].absent \in {"mounting", "mounted"} =>
                /\ parcels[p].pc = "mountError"
                /\ NamesAppAndPhase(parcels[p].err, parcels[p].name, parcels[p].absent)
          /\ parcels[p].pc \in {"unmount", "unmounting", "unmounted"} =>
                parcels[p].err = NoError
          /\ parcels[p].pc # "unmountError"

C12_Witness ==
    \E p, q \in DOMAIN parcels :
        /\ AtUnmount(p, "resolveBarrier")
        /\ parcels[q].pc = "mountError"
        /\ parcels[q].absent = "mounted"

\* the descriptor of instance i asks for a custom render function together
\* with strictStyleIsolation or scoped CSS
Incompatible(i) ==
    /\ insts[i].legacyRender
    /\ insts[i].sandbox \in {"strictStyleIsolation", "experimentalStyleIsolation"}

\* C13: a descriptor with a custom render function and strictStyleIsolation
\* or scoped CSS fails at load time: for it, no beforeLoad hook and no module
\* script runs, its load never resolves, and no parcel of it reaches its
\* bootstrap, mount or unmount chain.
C13_FailsAtLoadTime ==
    \A i \in DOMAIN insts :
        Incompatible(i) =>
            /\ insts[i].pc \in {"importEntry", "singularWait", "failed"}
            /\ insts[i].scriptRuns = 0
            /\ insts[i].bootstraps = 0
            /\ \A p \in DOMAIN parcels :
                  parcels[p].inst = i => parcels[p].pc \in {"loading", "loadError"}

(***************************************************************************)
(* Claims: lifecycle resolution.                                           *)
(***************************************************************************)
\* the candidates of instance i in the order of the claim: the module's
\* exports, the property set last (if one was set), the property named after
\* the app
Candidates(i) ==
    LET r == insts[i].resolution
    IN  <<[obj |-> "exports", fns |-> r.scriptExports]>>
        \o (IF r.latestSetProp # Null
            THEN <<[obj |-> r.latestSetProp, fns |-> r.global[r.latestSetProp]]>>
            ELSE <<>>)
        \o <<[obj |-> insts[i].name, fns |-> r.global[insts[i].name]]>>
Validating(i) ==
    {k \in DOMAIN Candidates(i) : Complete \subseteq Candidates(i)[k].fns}

\* C14: once the scripts of an instance have run, the lifecycles the load
\* uses are the first candidate in the order (exports, property set last,
\* property named after the app) that has bootstrap, mount and unmount; if no
\* candidate has them the load rejects and no parcel gets a config.
C14_FirstValidCandidate ==
    \A i \in DOMAIN insts :
        insts[i].resolution # NoResolution =>
            IF Validating(i) = {}
            THEN /\ insts[i].pc = "failed"
                 /\ insts[i].lifecycles = Thrown
                 /\ \A p \in DOMAIN parcels :
                       parcels[p].inst = i => parcels[p].pc \in {"loading", "loadError"}
            ELSE /\ insts[i].pc = "loaded"
                 /\ \E k \in Validating(i) :
                       /\ \A j \in Validating(i) : k <= j
                       /\ insts[i].lifecycles = Candidates(i)[k]

C14_Witness ==
    \E i \in DOMAIN insts :
        /\ insts[i].resolution # NoResolution
        /\ insts[i].resolution.latestSetProp = LibProp
        /\ Validating(i) = {2, 3}
        /\ insts[i].lifecycles.obj = LibProp
        /\ \E p \in DOMAIN parcels : parcels[p].inst = i /\ parcels[p].pc = "mounted"

(***************************************************************************)
(* Claims: re-seeding and the order of the callbacks.                      *)
(***************************************************************************)
\* C15: when initGlobalState is called again with the very object, untouched,
\* that the previous initGlobalState call was given, the store stays as it
\* is and no subscriber callback is invoked.
C15_ReseedSameReferenceIsNoOp ==
    [][(/\ lastOp.op = "init"
        /\ lastOp'.op = "init"
        /\ lastOp'.obj = lastOp.obj
        /\ lastOp'.arg = lastOp.arg)
       => (globalState' = globalState /\ lastOp'.invoked = <<>>)]_vars

\* the ids of the subscriptions d in the order emitGlobal walks them
IdsOf(d) == [i \in DOMAIN d |-> d[i].id]
Without(ids, id) == SelectSeq(ids, LAMBDA x : x # id)

\* C20 as claimed: a notification pass invokes the callbacks in the order of
\* their most recent onGlobalStateChange calls, so the id that has just
\* registered (again) is the last one the next pass will invoke.
C20_MostRecentRegistrationOrder ==
    (lastOp.op = "on" /\ lastOp.cb # NotAFunction) =>
        IdsOf(deps) = Append(Without(IdsOf(lastOp.depsBefore), lastOp.id), lastOp.id)

\* C20: a notification pass invokes the callbacks in the order in which their
\* ids first registered since they last unsubscribed: registering again
\* replaces the id's callback where it stands, a new id or one that had
\* unsubscribed goes last, unsubscribing leaves the order of the others, and
\* every pass walks the subscriptions in that order.
C20_FirstRegistrationOrder ==
    /\ (lastOp.op = "on" /\ lastOp.cb # NotAFunction) =>
            IdsOf(deps) = IF lastOp.id \in DepIds(lastOp.depsBefore)
                          THEN IdsOf(lastOp.depsBefore)
                          ELSE Append(IdsOf(lastOp.depsBefore), lastOp.id)
    /\ lastOp.op = "off" =>
            IdsOf(deps) = Without(IdsOf(lastOp.depsBefore), lastOp.id)
    /\ (lastOp.op \in {"set", "init"} /\ lastOp.ret) =>
            /\ IdsOf(lastOp.invoked) = IdsOf(lastOp.depsBefore)
            /\ deps = lastOp.depsBefore

\* an id registers a new callback after another id registered behind it
C20_Witness ==
    /\ lastOp.op = "on" /\ lastOp.cb \in Callbacks
    /\ Len(lastOp.depsBefore) >= 2
    /\ lastOp.depsBefore[1].id = lastOp.id
    /\ lastOp.depsBefore[1].cb # lastOp.cb
    /\ deps[1] = [id |-> lastOp.id, cb |-> lastOp.cb]

(***************************************************************************)
(* Claims: the remount cache.                                              *)
(***************************************************************************)
\* the cache key of the call parcel r records: the name alone under name-only
\* caching, the name and the container's xpath otherwise (Undefined when the
\* container had no xpath)
KeyOf(r) ==
    IF frameworkConfiguration.cacheLifecycleByAppName THEN r.name
    ELSE IF r.xpath # Undefined THEN r.name \o "-" \o r.xpath
    ELSE Undefined
\* parcel p is called in this step
Called(p) == parcels[p].pc = "idle" /\ parcels'[p].pc # "idle"

\* C16: a loadMicroApp call (for a descriptor with a container) whose key is
\* in the cache uses the cached load and starts none, so the entry loader is
\* not called and no script is executed again; a call whose key is not in the
\* cache starts a load of its own, so without name-only caching calls for the
\* same name with different container xpaths get different loads; an entry,
\* once in the cache, stays there unchanged.
C16_CacheKeyAndHits ==
    [][/\ \A k \in DOMAIN appConfigPromiseGetterMap :
             /\ k \in DOMAIN appConfigPromiseGetterMap'
             /\ appConfigPromiseGetterMap'[k] = appConfigPromiseGetterMap[k]
       /\ \A p \in DOMAIN parcels :
             Called(p) =>
                LET key == KeyOf(parcels'[p])
                IN  IF key \in DOMAIN appConfigPromiseGetterMap
                    THEN /\ insts' = insts
                         /\ parcels'[p].inst = appConfigPromiseGetterMap[key]
                    ELSE /\ Len(insts') = Len(insts) + 1
                         /\ parcels'[p].inst = Len(insts')
                         /\ insts'[Len(insts')].entryCalls = 1
                         /\ key # Undefined =>
                               /\ key \in DOMAIN appConfigPromiseGetterMap'
                               /\ appConfigPromiseGetterMap'[key] = Len(insts')
       /\ \A i \in DOMAIN insts' :
             insts'[i].entryCalls = 1 /\ insts'[i].scriptRuns <= 1
       /\ \A p, q \in DOMAIN parcels' :
             (/\ parcels'[p].pc # "idle" /\ parcels'[q].pc # "idle"
              /\ ~frameworkConfiguration.cacheLifecycleByAppName
              /\ parcels'[p].name = parcels'[q].name
              /\ parcels'[p].xpath # Undefined /\ parcels'[q].xpath # Undefined
              /\ parcels'[p].xpath # parcels'[q].xpath)
             => parcels'[p].inst # parcels'[q].inst
      ]_vars

\* the second call hit the cache entry of the first and mounted the app
\* again after its module had been loaded and executed once
C16_Witness ==
    /\ parcels[1].pc = "unmounted"
    /\ parcels[2].pc = "mounted"
    /\ parcels[2].remount
    /\ parcels[2].inst = parcels[1].inst
    /\ Len(insts) = 1
    /\ insts[1].entryCalls = 1 /\ insts[1].scriptRuns = 1
    /\ KeyOf(parcels[2]) \in DOMAIN appConfigPromiseGetterMap

(***************************************************************************)
(* Claims: the order of the steps of a mount and of an unmount.            *)
(***************************************************************************)
\* step b completes in this transition of parcel p, right after step a
Completes(p, b) == parcels'[p].ran = b /\ parcels[p].ran # b
After(p, a, b) == Completes(p, b) => parcels[p].ran = a

\* C17: the steps of a mount complete one after the other in the order:
\* singular wait, render 'mounting' (with the wrapper there), sandbox mount,
\* beforeMount, module mount, render 'mounted', afterMount, arm the barrier.
\* The singular wait ends only on a resolved Deferred; the module's mount is
\* invoked only once beforeMount has completed; a singular parcel arms a
\* fresh, unresolved Deferred, and only once afterMount has completed.
C17_MountOrder ==
    [][\A p \in DOMAIN parcels :
         /\ After(p, "", "singularWait")
         /\ After(p, "singularWait", "renderMounting")
         /\ After(p, "renderMounting", "mountSandbox")
         /\ After(p, "mountSandbox", "beforeMount")
         /\ After(p, "beforeMount", "moduleMount")
         /\ After(p, "moduleMount", "renderMounted")
         /\ After(p, "renderMounted", "afterMount")
         /\ After(p, "afterMount", "armBarrier")
         /\ (Completes(p, "singularWait") /\ parcels[p].pc = "mountWait")
               => parcels[p].waitOn \in resolvedDeferreds
         /\ Completes(p, "renderMounting") => parcels'[p].elem
         /\ (parcels'[p].pc = "mounting" /\ parcels[p].pc # "mounting")
               => parcels[p].ran = "beforeMount"
         /\ Completes(p, "moduleMount") => parcels[p].pc = "mounting"
         /\ Completes(p, "armBarrier") =>
               /\ parcels'[p].pc = "mounted"
               /\ IF Singular(p)
                  THEN /\ prevAppUnmountedDeferred' \notin 0..numDeferreds
                       /\ prevAppUnmountedDeferred' \notin resolvedDeferreds'
                  ELSE prevAppUnmountedDeferred' = prevAppUnmountedDeferred
         /\ parcels'[p].pc = "mounted" => parcels'[p].ran = "armBarrier"
      ]_vars

\* a singular parcel that waited for the Deferred of an earlier mount has
\* mounted and armed the second Deferred
C17_Witness ==
    \E p \in DOMAIN parcels :
        /\ parcels[p].pc = "mounted"
        /\ parcels[p].ran = "armBarrier"
        /\ Singular(p)
        /\ prevAppUnmountedDeferred = 2
        /\ 1 \in resolvedDeferreds
        /\ 2 \notin resolvedDeferreds

\* C18: the steps of an unmount complete one after the other in the order:
\* beforeUnmount, module unmount, sandbox unmount, afterUnmount, render
\* 'unmounted' with the unsubscription from the bus and the release of the
\* wrapper, resolve the barrier (if singular); so the Deferred is resolved
\* only once the module's unmount and the sandbox unmount have completed.
C18_UnmountOrder ==
    [][\A p \in DOMAIN parcels :
         /\ After(p, "armBarrier", "beforeUnmount")
         /\ After(p, "beforeUnmount", "moduleUnmount")
         /\ After(p, "moduleUnmount", "unmountSandbox")
         /\ After(p, "unmountSandbox", "afterUnmount")
         /\ After(p, "afterUnmount", "renderUnmounted")
         /\ After(p, "renderUnmounted", "resolveBarrier")
         /\ (parcels'[p].pc = "unmounting" /\ parcels[p].pc # "unmounting")
               => parcels[p].ran = "beforeUnmount"
         /\ Completes(p, "moduleUnmount") => parcels[p].pc = "unmounting"
         /\ Completes(p, "renderUnmounted") =>
               /\ ~parcels'[p].elem
               /\ appInstanceId(parcels[p].inst) \notin DepIds(deps')
         /\ Completes(p, "resolveBarrier") =>
               /\ parcels'[p].pc = "unmounted"
               /\ (Singular(p) /\ prevAppUnmountedDeferred # 0)
                     => prevAppUnmountedDeferred \in resolvedDeferreds'
         /\ (resolvedDeferreds' # resolvedDeferreds /\ parcels'[p] # parcels[p])
               => Completes(p, "resolveBarrier")
         /\ parcels'[p].pc = "unmounted" => parcels'[p].ran = "resolveBarrier"
      ]_vars

\* a singular parcel has unmounted and resolved the Deferred its mount armed
C18_Witness ==
    \E p \in DOMAIN parcels :
        /\ parcels[p].pc = "unmounted"
        /\ parcels[p].ran = "resolveBarrier"
        /\ Singular(p)
        /\ prevAppUnmountedDeferred = 1
        /\ resolvedDeferreds = {1}

(***************************************************************************)
(* Claims: the waiters of the singular barrier.                            *)
(***************************************************************************)
\* parcel p awaits a Deferred that has not been resolved, in its load
\* (loader.ts:296-298) or in its mount chain (loader.ts:436-438)
Blocked(p) ==
    \/ /\ parcels[p].pc = "mountWait"
       /\ parcels[p].waitOn \notin resolvedDeferreds
    \/ /\ parcels[p].inst # 0
       /\ insts[parcels[p].inst].pc = "singularWait"
       /\ insts[parcels[p].inst].waitOn \notin resolvedDeferreds

\* C19: a singular load or mount that waits on the barrier proceeds once
\* every mounted singular instance has completed its unmount chain; here in
\* the form a finite run refutes: while a parcel is blocked, some other
\* parcel has still to complete its mount and unmount.
C19_WaitersProceed ==
    \A p \in DOMAIN parcels :
        Blocked(p) =>
            \E q \in DOMAIN parcels :
                /\ ~Blocked(q)
                /\ parcels[q].pc # "unmounted"

C22_ThrowingCallback ==
    (lastOp.op = "set" /\ lastOp.thrown # NoThrow) =>
        /\ ~lastOp.ret
        /\ lastOp.thrown \in DOMAIN lastOp.depsBefore
        /\ Len(lastOp.invoked) = lastOp.thrown
        /\ \A i \in DOMAIN lastOp.invoked :
                /\ lastOp.invoked[i].id = lastOp.depsBefore[i].id
                /\ lastOp.invoked[i].next = globalState.val
        /\ \A i \in DOMAIN lastOp.depsBefore :
                i > lastOp.thrown =>
                    \A j \in DOMAIN lastOp.invoked :
                        lastOp.invoked[j].id # lastOp.depsBefore[i].id
        /\ AppliedKeys(lastOp) # {}
        /\ globalState.val = Override(lastOp.before, lastOp.arg, AppliedKeys(lastOp))
        /\ deps = lastOp.depsBefore

\* the first of two callbacks threw in a pass for an update that changed the
\* store
C22_Witness ==
    /\ lastOp.op = "set"
    /\ lastOp.thrown = 1
    /\ Len(lastOp.depsBefore) = 2
    /\ globalState.val # lastOp.before
    /\ lastOp.before # EmptyVal

(***************************************************************************)
(* Claims: the subscription of an instance after its unmount               *)
(* (SpecSubscribe).                                                        *)
(***************************************************************************)
InstIds == {appInstanceId(i) : i \in DOMAIN insts}
InvokedIds(o) == {o.invoked[j].id : j \in DOMAIN o.invoked}
\* every parcel of the instance of p whose module mount has been invoked has
\* completed its unmount chain
UnmountCompleted(p) ==
    /\ parcels[p].pc = "unmounted"
    /\ \A q \in DOMAIN parcels :
            (parcels[q].inst = parcels[p].inst /\ MountInvoked(q)) =>
                parcels[q].pc = "unmounted"

\* C23: the step of an unmount chain that unsubscribes removes the
\* instance's id from deps and leaves the store and the subscriptions of the
\* other ids, in their order, as they were; while the unmount chain of an
\* instance is complete deps holds nothing under its id; an id comes back
\* into deps only by an onGlobalStateChange under that id; and a
\* setGlobalState or initGlobalState invokes callbacks only of ids that deps
\* held when it was called, so none of an unmounted instance.
C23_UnsubscribedAfterUnmount ==
    [][/\ \A p \in DOMAIN parcels :
            Completes(p, "renderUnmounted") =>
                LET id == appInstanceId(parcels[p].inst)
                IN  /\ id \notin DepIds(deps')
                    /\ deps' = SelectSeq(deps, LAMBDA e : e.id # id)
                    /\ globalState' = globalState
       /\ \A p \in DOMAIN parcels :
            UnmountCompleted(p) => appInstanceId(parcels[p].inst) \notin DepIds(deps)
       /\ \A id \in InstIds :
            (id \notin DepIds(deps) /\ id \in DepIds(deps')) =>
                lastOp'.op = "on" /\ lastOp'.id = id
       /\ (parcels' = parcels /\ insts' = insts /\ lastOp'.op \in {"set", "init"}) =>
            /\ InvokedIds(lastOp') \subseteq DepIds(deps)
            /\ \A p \in DOMAIN parcels :
                    UnmountCompleted(p) =>
                        appInstanceId(parcels[p].inst) \notin InvokedIds(lastOp')
      ]_vars

\* the unmount chain of an instance has just removed the subscription its
\* module made after the host's, and the host's subscription is still there
C23_Witness ==
    \E p \in DOMAIN parcels :
        /\ parcels[p].ran = "renderUnmounted"
        /\ lastOp.op = "on"
        /\ lastOp.id = appInstanceId(parcels[p].inst)
        /\ Len(lastOp.depsBefore) = 1
        /\ deps = lastOp.depsBefore
        /\ globalState.val # EmptyVal

(***************************************************************************)
(* Claims: bootstrap before mount.                                         *)
(***************************************************************************)
\* the module's bootstrap of instance i has been invoked and has completed
Bootstrapped(i) ==
    /\ insts[i].bootstraps >= 1
    /\ \A q \in DOMAIN parcels :
            (parcels[q].inst = i /\ parcels[q].config.bootstrap = "module") =>
                parcels[q].pc # "bootstrapping"

\* C24: the module's mount of an instance is not invoked before the module's
\* bootstrap of that instance has been invoked and has completed, also for
\* the parcel of a loadMicroApp call that was served from the cache.
C24_MountAfterBootstrap ==
    \A p \in DOMAIN parcels :
        MountInvoked(p) => Bootstrapped(parcels[p].inst)

(***************************************************************************)
(* Claims: a load that failed (SpecFailure).                               *)
(***************************************************************************)
\* C25: a rejected load stays in the cache.  An entry of the cache is never
\* removed or replaced and a failed load stays as it failed, with its error;
\* a loadMicroApp call whose key is in the cache with a failed load starts no
\* load (the entry loader is not called again) and gets that load, so its
\* parcel ends in the same load error and never bootstraps or mounts.
C25_FailedLoadStaysCached ==
    [][/\ \A k \in DOMAIN appConfigPromiseGetterMap :
             /\ k \in DOMAIN appConfigPromiseGetterMap'
             /\ appConfigPromiseGetterMap'[k] = appConfigPromiseGetterMap[k]
       /\ \A i \in DOMAIN insts :
             insts[i].pc = "failed" =>
                /\ insts'[i] = insts[i]
                /\ insts[i].err # NoError
                /\ insts[i].entryCalls = 1
       /\ \A p \in DOMAIN parcels :
             (/\ Called(p)
              /\ KeyOf(parcels'[p]) \in DOMAIN appConfigPromiseGetterMap
              /\ insts[appConfigPromiseGetterMap[KeyOf(parcels'[p])]].pc = "failed") =>
                /\ insts' = insts
                /\ parcels'[p].inst = appConfigPromiseGetterMap[KeyOf(parcels'[p])]
       /\ \A p \in DOMAIN parcels :
             (parcels[p].inst # 0 /\ insts[parcels[p].inst].pc = "failed") =>
                /\ parcels[p].pc \in {"loading", "loadError"}
                /\ parcels'[p].pc \in {"loading", "loadError"}
      ]_vars

\* two calls for one key, made one after the other's load had failed, have
\* both ended in the load error of the one load
C25_Witness ==
    \E p, q \in DOMAIN parcels :
        /\ p < q
        /\ parcels[p].pc = "loadError" /\ parcels[q].pc = "loadError"
        /\ parcels[q].remount
        /\ parcels[q].inst = parcels[p].inst
        /\ insts[parcels[p].inst].entryCalls = 1
        /\ insts[parcels[p].inst].err = EntryError(parcels[p].name)
        /\ Len(insts) = 1

(***************************************************************************)
(* Claims: an unmount chain that rejects (SpecUnmountFailure).             *)
(***************************************************************************)
\* a step of the unmount chain of parcel p has rejected
UnmountFailed(p) ==
    /\ parcels[p].err # NoError
    /\ parcels[p].err[4] \in RejectingSteps

\* C26: when a step of the unmount chain of a singular instance rejects, the
\* later steps of the chain do not run: the parcel stays where it failed,
\* with its wrapper element; the rejecting step and the failed parcel resolve
\* no Deferred and remove no subscription (only the last step of a chain that
\* completes resolves one, only the render step of such a chain removes a
\* subscription); and a load or mount that waits on a Deferred leaves its
\* wait only once that Deferred has been resolved.
C26_RejectedUnmount ==
    [][/\ \A p \in DOMAIN parcels :
            UnmountFailed(p) =>
                /\ parcels[p].pc = "unmountError"
                /\ parcels'[p] = parcels[p]
                /\ parcels[p].elem
                /\ parcels[p].ran \in {"armBarrier", "beforeUnmount",
                                       "moduleUnmount", "unmountSandbox"}
       /\ \A p \in DOMAIN parcels :
            (~UnmountFailed(p) /\ parcels'[p].pc = "unmountError") =>
                /\ resolvedDeferreds' = resolvedDeferreds
                /\ deps' = deps
                /\ prevAppUnmountedDeferred' = prevAppUnmountedDeferred
       /\ resolvedDeferreds' # resolvedDeferreds =>
            \E q \in DOMAIN parcels :
                /\ Completes(q, "resolveBarrier")
                /\ ~UnmountFailed(q)
                /\ resolvedDeferreds' = resolvedDeferreds \cup {prevAppUnmountedDeferred}
       /\ \A id \in DepIds(deps) \ DepIds(deps') :
            \E q \in DOMAIN parcels :
                /\ Completes(q, "renderUnmounted")
                /\ ~UnmountFailed(q)
                /\ id = appInstanceId(parcels[q].inst)
       /\ \A i \in DOMAIN insts :
            (insts[i].pc = "singularWait" /\ insts'[i].pc # "singularWait") =>
                insts[i].waitOn \in resolvedDeferreds
       /\ \A p \in DOMAIN parcels :
            (parcels[p].pc = "mountWait" /\ parcels'[p].pc # "mountWait") =>
                parcels[p].waitOn \in resolvedDeferreds
      ]_vars

\* the afterUnmount hook of the only mounted instance, which had subscribed,
\* has rejected while the load of another instance waits on the Deferred its
\* mount armed: the Deferred is unresolved, the subscription and the wrapper
\* are still there
C26_Witness ==
    \E p \in DOMAIN parcels, i \in DOMAIN insts :
        /\ parcels[p].pc = "unmountError"
        /\ parcels[p].err = UnmountRejection(parcels[p].name, "afterUnmount")
        /\ Singular(p)
        /\ parcels[p].elem
        /\ appInstanceId(parcels[p].inst) \in DepIds(deps)
        /\ prevAppUnmountedDeferred = 1
        /\ resolvedDeferreds = {}
        /\ insts[i].pc = "singularWait"
        /\ insts[i].waitOn = 1

=============================================================================
